---- MODULE Spec2Model ----
(***************************************************************************)
(* A model of src/script.js, the browser-side chat client: the chat view,   *)
(* the conversation mode, the /chat requests in flight, and the microphone  *)
(* capture flow.  Every action is one task of the browser's event loop: a   *)
(* user event handler run up to its first await, or the continuation of an  *)
(* async function after the awaited promise settles.  User events may come   *)
(* before the load event.  Speech output (speakText and the audio element  *)
(* it plays through) has a specification of its own.                        *)
(*                                                                          *)
(* A text is a sequence of tokens.  The tokens "<", ">" and " " are the     *)
(* characters themselves; every other token is a run of characters that     *)
(* holds none of the three.                                                 *)
(***************************************************************************)
EXTENDS Integers, Sequences, FiniteSets, TLC

VARIABLES
    loaded,           \* the window load event has been dispatched
    initialHistory,   \* the host page's global, fixed before load
    chatBox,          \* the children of #chat-box, in document order
    userInput,        \* userInput.value
    currentChatMode,  \* script.js:8
    recording,        \* voiceInputBtn.classList.contains("recording")
    mediaRecorder,    \* script.js:9: 0 (undefined) or the index of a recorder
    audioChunks,      \* script.js:10
    recorders,        \* every MediaRecorder constructed so far
    streams,          \* every MediaStream granted so far: "live" or "stopped"
    gumPending,       \* getUserMedia promises not yet settled
    net,              \* fetch requests in flight, in the order issued
    objectUrls,       \* per object URL created: the revokeObjectURL calls on it
    ttsAudio,         \* #tts-audio: src (0: none), playback state, onended
    clicksLeft        \* user actions the run may still take (bounds the run)

vars == <<loaded, initialHistory, chatBox, userInput, currentChatMode,
          recording, mediaRecorder, audioChunks, recorders, streams,
          gumPending, net, objectUrls, ttsAudio, clicksLeft>>

-----------------------------------------------------------------------------
(* Bounds of the model. *)

\* User actions that change the state, per run.
MaxClicks == 3
\* The same, in the specification of voice input alone: two capture sessions,
\* each started and stopped.
MaxVoiceClicks == 4
\* Tokens of a text in the rendering specification.
MaxText == 3
\* Entries of an initialHistory in the bootstrap specification.
MaxHistory == 2

-----------------------------------------------------------------------------
(* Texts. *)

Lt == <<"&", "l", "t", ";">>
Gt == <<"&", "g", "t", ";">>

RECURSIVE ReplaceAll(_, _, _)
\* String.prototype.replace with a global one-character pattern.
ReplaceAll(text, ch, by) ==
    IF text = <<>> THEN <<>>
    ELSE (IF Head(text) = ch THEN by ELSE <<Head(text)>>)
         \o ReplaceAll(Tail(text), ch, by)

\* A slip: the second replace is missing.
Sanitize_LtOnly(text) == ReplaceAll(text, "<", Lt)

\* script.js:16
Sanitize(text) == ReplaceAll(ReplaceAll(text, "<", Lt), ">", Gt)

RECURSIVE TrimStart(_)
TrimStart(text) ==
    IF text # <<>> /\ Head(text) = " " THEN TrimStart(Tail(text)) ELSE text

RECURSIVE TrimEnd(_)
TrimEnd(text) ==
    IF text # <<>> /\ text[Len(text)] = " "
    THEN TrimEnd(SubSeq(text, 1, Len(text) - 1))
    ELSE text

\* String.prototype.trim, script.js:64
Trim(text) == TrimEnd(TrimStart(text))

GreetingText == <<"Hello MindMate, I'm here.">>
GreetingFailedText ==
    <<"I'm sorry, I couldn't start our conversation. Please try refreshing the page.">>
TroubleText ==
    <<"Sorry, I'm having trouble responding right now. Please try again.">>
MicDeniedText ==
    <<"Microphone access was denied. Please enable it in your browser's site settings and refresh the page.">>
MicNotFoundText ==
    <<"No microphone was found. Please ensure a microphone is connected and enabled.">>
MicOtherText ==
    <<"Could not access microphone. Please ensure permissions are granted and no other app is using it.">>
SttFailedText == <<"Could not process audio for transcription.">>
SttErrorPrefix == <<"Speech-to-Text Error:", " ">>
TtsFailedText == <<"Failed to convert response to speech.">>
TtsErrorPrefix == <<"Text-to-Speech Error:", " ">>
SwitchedMentalHealthText ==
    <<"Switched to Mental Health Assistant mode. How are you feeling today?">>
SwitchedStudyBuddyText ==
    <<"Switched to AI Study Buddy mode. What would you like to learn about?">>

Modes == {"mental_health", "study_buddy"}

-----------------------------------------------------------------------------
(* What the environment can supply. *)

\* What the user can have typed into the input field.
Inputs == { <<" ">>, <<" ", "hi", " ">> }

\* The string of a /chat body's "response" field.
Replies == { <<"<", "i", ">">> }

\* A /chat body: JSON with a string "response", or anything else (not JSON, or
\* JSON without the field), for which response.json() rejects or
\* displayMessage throws on text.replace before it touches the view.
NoBody == [json |-> FALSE, response |-> <<>>]
ChatBodies == {NoBody} \cup {[json |-> TRUE, response |-> r] : r \in Replies}

\* How a fetch of /chat settles: rejected (transport), or resolved with a
\* status (response.ok) and a body.
ChatOutcomes ==
    {[transport |-> FALSE, ok |-> FALSE, body |-> NoBody]}
    \cup {[transport |-> TRUE, ok |-> o, body |-> b] :
            o \in BOOLEAN, b \in ChatBodies}

\* The ordering specification: two messages that can be told apart, and a
\* server whose reply names the message it answers.
OrderInputs == { <<"a">>, <<"b">> }
ReplyTo(message) == <<"re:">> \o message
Answered(request) ==
    [transport |-> TRUE, ok |-> TRUE,
     body |-> [json |-> TRUE, response |-> ReplyTo(request.message)]]

\* A /speech_to_text body: its "text" and "error" fields, <<>> when absent
\* or empty (both falsy).  json FALSE: the fetch or response.json() rejects.
SttOutcomes ==
    { [json |-> FALSE, text |-> <<>>, error |-> <<>>],
      [json |-> TRUE,  text |-> <<"hi">>, error |-> <<>>],
      [json |-> TRUE,  text |-> <<" ">>, error |-> <<>>],
      [json |-> TRUE,  text |-> <<>>, error |-> <<"no speech">>],
      [json |-> TRUE,  text |-> <<>>, error |-> <<>>] }

\* How a fetch of /text_to_speech settles: rejected (transport), resolved
\* with audio (ok), or resolved with a non-2xx status and a body that is
\* JSON, with or without an "error" field, or is not JSON.
NoError == [present |-> FALSE, text |-> <<>>]
TtsOutcomes ==
    { [transport |-> FALSE, ok |-> FALSE, json |-> FALSE, error |-> NoError],
      [transport |-> TRUE,  ok |-> TRUE,  json |-> FALSE, error |-> NoError],
      [transport |-> TRUE,  ok |-> FALSE, json |-> FALSE, error |-> NoError],
      [transport |-> TRUE,  ok |-> FALSE, json |-> TRUE,  error |-> NoError],
      [transport |-> TRUE,  ok |-> FALSE, json |-> TRUE,
       error |-> [present |-> TRUE, text |-> <<"quota">>]] }

\* error.name of a getUserMedia rejection.
MicErrorNames ==
    {"NotAllowedError", "PermissionDeniedError", "NotFoundError",
     "DevicesNotFoundError", "NotReadableError"}

\* After the grant: the recorder starts, or `new MediaRecorder` throws
\* (script.js:115), or mediaRecorder.start() throws (script.js:148).
StartOutcomes == {"started", "ctorThrows", "startThrows"}

HistoryEntry(role, text) == [role |-> role, text |-> text]
Undefined == [defined |-> FALSE, entries |-> <<>>]
History(entries) == [defined |-> TRUE, entries |-> entries]

\* The initialHistory globals of the main specifications: none, and one of
\* two entries.  (The bootstrap specification takes every small history.)
Histories ==
    { Undefined,
      History(<<HistoryEntry("user", <<"hi">>),
                HistoryEntry("model", <<"hello">>)>>) }

\* The initialHistory globals of the bootstrap specification: every history
\* of at most MaxHistory entries.
BootEntries ==
    {HistoryEntry(role, text) :
        role \in {"user", "model"}, text \in {<<"hi">>, <<"<", "b", ">">>}}
BootHistories ==
    {Undefined}
    \cup {History(entries) :
            entries \in UNION {[1..n -> BootEntries] : n \in 0..MaxHistory}}

\* The texts of the rendering specification: every text of at most MaxText
\* tokens over an alphabet with both angle brackets, the ampersand, a
\* letter and the space.
Alphabet == {"<", ">", "&", "a", " "}
Texts == UNION {[1..n -> Alphabet] : n \in 0..MaxText}

\* An initialHistory of one entry for every such text and either role.
RenderHistories ==
    {History(<<HistoryEntry(role, text)>>) :
        role \in {"user", "model"}, text \in Texts}

-----------------------------------------------------------------------------
(* displayMessage, script.js:13-29.  A line of the view: the sender label,  *)
(* the sanitized text, and the speaker icon: <<>> when there is none, else  *)
(* <<t>> with t the text its onclick passes to speakText.                   *)

Line(sender, text, canSpeak) ==
    [sender |-> sender,
     html   |-> Sanitize(text),
     icon   |-> IF canSpeak /\ sender = "MindMate" THEN <<text>> ELSE <<>>]

\* A slip: the line is put first in the view.
displayMessage_Prepend(box, sender, text, canSpeak) ==
    <<Line(sender, text, canSpeak)>> \o box

displayMessage(box, sender, text, canSpeak) ==
    Append(box, Line(sender, text, canSpeak))

-----------------------------------------------------------------------------
(* Requests in flight.  `from` is the async function awaiting the fetch.    *)

\* A slip: the request is tagged with the default mode.
ChatRequest_DefaultMode(from, message, mode) ==
    [ep |-> "/chat", from |-> from, message |-> message,
     chat_type |-> "mental_health", audio |-> <<>>]

\* The body of a /chat request, script.js:37 and script.js:75.
ChatRequest(from, message, mode) ==
    [ep |-> "/chat", from |-> from, message |-> message, chat_type |-> mode,
     audio |-> <<>>]

SttRequest(chunks) ==
    [ep |-> "/speech_to_text", from |-> "onstop", message |-> <<>>,
     chat_type |-> "", audio |-> chunks]

RemoveAt(seq, i) == SubSeq(seq, 1, i - 1) \o SubSeq(seq, i + 1, Len(seq))

-----------------------------------------------------------------------------
(* Initial state: the script has run (listeners attached), load has not     *)
(* fired yet.                                                               *)

InitWith(histories, budget) ==
    /\ loaded = FALSE
    /\ initialHistory \in histories
    /\ chatBox = <<>>
    /\ userInput = <<>>
    /\ currentChatMode = "mental_health"
    /\ recording = FALSE
    /\ mediaRecorder = 0
    /\ audioChunks = <<>>
    /\ recorders = <<>>
    /\ streams = <<>>
    /\ gumPending = 0
    /\ net = <<>>
    /\ objectUrls = <<>>
    /\ ttsAudio = [src |-> 0, state |-> "idle", onended |-> 0]
    /\ clicksLeft = budget

Init == InitWith(Histories, MaxClicks)

micVars == <<recording, mediaRecorder, audioChunks, recorders, streams, gumPending>>

ttsVars == <<objectUrls, ttsAudio>>

-----------------------------------------------------------------------------
(* sendInitialGreeting up to its await, script.js:32-38: the state of the   *)
(* view and the requests after it, given the mode to tag the request with.  *)

sendInitialGreeting(requests, mode) ==
    Append(requests, ChatRequest("sendInitialGreeting", GreetingText, mode))

\* A slip: the role test of the sender is inverted.
RECURSIVE RenderHistory_Swapped(_, _)
RenderHistory_Swapped(box, entries) ==
    IF entries = <<>> THEN box
    ELSE RenderHistory_Swapped(
            displayMessage(box,
                           IF Head(entries).role = "user" THEN "MindMate" ELSE "You",
                           Head(entries).text,
                           Head(entries).role = "model"),
            Tail(entries))

\* The lines window.onload renders for a history, script.js:52-54.
RECURSIVE RenderHistory(_, _)
RenderHistory(box, entries) ==
    IF entries = <<>> THEN box
    ELSE RenderHistory(
            displayMessage(box,
                           IF Head(entries).role = "user" THEN "You" ELSE "MindMate",
                           Head(entries).text,
                           Head(entries).role = "model"),
            Tail(entries))

\* window.onload, script.js:48-59
Onload ==
    /\ ~loaded
    /\ loaded' = TRUE
    /\ IF initialHistory.defined /\ Len(initialHistory.entries) > 0
       THEN /\ chatBox' = RenderHistory(chatBox, initialHistory.entries)
            /\ net' = net
       ELSE /\ chatBox' = chatBox
            /\ net' = sendInitialGreeting(net, currentChatMode)
    /\ UNCHANGED <<initialHistory, userInput, currentChatMode, clicksLeft>>
    /\ UNCHANGED micVars
    /\ UNCHANGED ttsVars

-----------------------------------------------------------------------------
(* Text chat. *)

\* The user edits the input field.
Type(value) ==
    /\ userInput # value
    /\ userInput' = value
    /\ UNCHANGED <<loaded, initialHistory, chatBox, currentChatMode, net, clicksLeft>>
    /\ UNCHANGED micVars
    /\ UNCHANGED ttsVars

\* A slip: the empty-input check is missing.
sendMessage_NoGuard(value, requests) ==
    LET userText == Trim(value) IN
    /\ chatBox' = displayMessage(chatBox, "You", userText, FALSE)
    /\ userInput' = <<>>
    /\ net' = Append(requests, [ep |-> "/chat", from |-> "sendMessage",
                                message |-> userText,
                                chat_type |-> currentChatMode, audio |-> <<>>])

\* sendMessage up to its await, script.js:63-76, called with `value` in the
\* input field and `requests` in flight.
sendMessage(value, requests) ==
    LET userText == Trim(value) IN
    IF userText = <<>>
    THEN /\ chatBox' = chatBox
         /\ userInput' = value
         /\ net' = requests
    ELSE /\ chatBox' = displayMessage(chatBox, "You", userText, FALSE)
         /\ userInput' = <<>>
         /\ net' = Append(requests, ChatRequest("sendMessage", userText, currentChatMode))

\* The keypress listener with event.key "Enter", script.js:91-95.
PressEnter ==
    /\ Trim(userInput) # <<>> => clicksLeft > 0
    /\ sendMessage(userInput, net)
    /\ clicksLeft' = IF Trim(userInput) # <<>> THEN clicksLeft - 1 ELSE clicksLeft
    /\ UNCHANGED <<loaded, initialHistory, currentChatMode>>
    /\ UNCHANGED micVars
    /\ UNCHANGED ttsVars

\* A slip: response.ok is not looked at, as in sendInitialGreeting.
sendMessageSettled_NoOkCheck(box, outcome) ==
    IF outcome.transport /\ outcome.body.json
    THEN displayMessage(box, "MindMate", outcome.body.response, TRUE)
    ELSE displayMessage(box, "MindMate", TroubleText, FALSE)

\* sendMessage after its fetch settled, script.js:78-87: the view after it.
sendMessageSettled(box, outcome) ==
    IF outcome.transport /\ outcome.ok /\ outcome.body.json
    THEN displayMessage(box, "MindMate", outcome.body.response, TRUE)
    ELSE displayMessage(box, "MindMate", TroubleText, FALSE)

\* A slip: the catch block of sendMessage, pasted.
sendInitialGreetingSettled_Pasted(box, outcome) ==
    IF outcome.transport /\ outcome.body.json
    THEN displayMessage(box, "MindMate", outcome.body.response, TRUE)
    ELSE displayMessage(box, "MindMate", TroubleText, FALSE)

\* sendInitialGreeting after its fetch settled, script.js:39-44.
sendInitialGreetingSettled(box, outcome) ==
    IF outcome.transport /\ outcome.body.json
    THEN displayMessage(box, "MindMate", outcome.body.response, TRUE)
    ELSE displayMessage(box, "MindMate", GreetingFailedText, FALSE)

\* The fetch of the i-th request in flight, a /chat request, settles and the
\* function awaiting it runs to its end.  (Between the fetch resolving and
\* response.json() resolving the function reads and writes nothing.)
ChatResponse(i, outcome) ==
    /\ i \in 1..Len(net)
    /\ net[i].ep = "/chat"
    /\ net' = RemoveAt(net, i)
    /\ chatBox' = IF net[i].from = "sendMessage"
                  THEN sendMessageSettled(chatBox, outcome)
                  ELSE sendInitialGreetingSettled(chatBox, outcome)
    /\ UNCHANGED <<loaded, initialHistory, userInput, currentChatMode, clicksLeft>>
    /\ UNCHANGED micVars
    /\ UNCHANGED ttsVars

-----------------------------------------------------------------------------
(* Mode switching. *)

\* switchMode, script.js:196-207: the view after it.  (Which selector carries
\* the class "active" is not modelled: nothing reads it.)
switchMode(box, newMode) ==
    IF newMode = "mental_health"
    THEN displayMessage(box, "System", SwitchedMentalHealthText, FALSE)
    ELSE displayMessage(box, "System", SwitchedStudyBuddyText, FALSE)

\* A slip: the selectors do not look at the current mode.
ModeClick_NoGuard(mode) ==
    /\ clicksLeft > 0
    /\ clicksLeft' = clicksLeft - 1
    /\ currentChatMode' = mode
    /\ chatBox' = switchMode(<<>>, mode)
    /\ net' = sendInitialGreeting(net, mode)
    /\ UNCHANGED <<loaded, initialHistory, userInput>>
    /\ UNCHANGED micVars
    /\ UNCHANGED ttsVars

\* The click listeners of the two mode selectors, script.js:209-225.
ModeClick(mode) ==
    /\ IF currentChatMode # mode
       THEN /\ clicksLeft > 0
            /\ clicksLeft' = clicksLeft - 1
            /\ currentChatMode' = mode
            /\ chatBox' = switchMode(<<>>, mode)
            /\ net' = sendInitialGreeting(net, mode)
       ELSE UNCHANGED <<clicksLeft, currentChatMode, chatBox, net>>
    /\ UNCHANGED <<loaded, initialHistory, userInput>>
    /\ UNCHANGED micVars
    /\ UNCHANGED ttsVars

chatVars == <<loaded, initialHistory, userInput, currentChatMode>>

-----------------------------------------------------------------------------
(* Voice input.  A recorder: the stream it records, its state attribute,    *)
(* and whether the task that stop() queued (it fires dataavailable and      *)
(* then stop) is still to run.                                              *)

Recorder(stream, state) == [stream |-> stream, state |-> state, task |-> FALSE]

\* The blob a recorder delivers with dataavailable: which recorder captured
\* it, and whether it holds any data (a stop right after the start delivers
\* a blob of size 0).
ChunkSizes == {0, 1}
Chunk(r, size) == [recorder |-> r, size |-> size]

\* MediaRecorder.stop() on recorder r, script.js:102.
stop(recs, r) == [recs EXCEPT ![r].state = "inactive", ![r].task = TRUE]

\* The click listener of the voice button up to its await, script.js:98-109.
VoiceClick ==
    /\ clicksLeft > 0
    /\ clicksLeft' = clicksLeft - 1
    /\ IF recording
       THEN /\ recorders' =
                  IF mediaRecorder # 0 /\ recorders[mediaRecorder].state = "recording"
                  THEN stop(recorders, mediaRecorder)
                  ELSE recorders
            /\ recording' = FALSE
            /\ gumPending' = gumPending
       ELSE /\ gumPending' = gumPending + 1
            /\ UNCHANGED <<recorders, recording>>
    /\ UNCHANGED <<mediaRecorder, audioChunks, streams, chatBox, net>>
    /\ UNCHANGED chatVars
    /\ UNCHANGED ttsVars

\* A slip: the legacy error names are not recognised.
micErrorText_StandardNamesOnly(name) ==
    IF name = "NotAllowedError"
    THEN MicDeniedText
    ELSE IF name = "NotFoundError"
         THEN MicNotFoundText
         ELSE MicOtherText

\* The message of the catch block, script.js:156-162.
micErrorText(name) ==
    IF name = "NotAllowedError" \/ name = "PermissionDeniedError"
    THEN MicDeniedText
    ELSE IF name = "NotFoundError" \/ name = "DevicesNotFoundError"
         THEN MicNotFoundText
         ELSE MicOtherText

\* The catch block of the start branch, script.js:150-163: the view after it.
micCatch(box, name) == displayMessage(box, "System", micErrorText(name), FALSE)

\* getUserMedia resolves and the listener runs on, script.js:109-148; when
\* the constructor or start() throws, into its catch block.
MicGrant(outcome) ==
    /\ gumPending > 0
    /\ gumPending' = gumPending - 1
    /\ streams' = Append(streams, "live")
    /\ LET s == Len(streams) + 1
           r == Len(recorders) + 1
       IN  CASE outcome = "started" ->
                  /\ recording' = TRUE
                  /\ recorders' = Append(recorders, Recorder(s, "recording"))
                  /\ mediaRecorder' = r
                  /\ audioChunks' = <<>>
                  /\ chatBox' = chatBox
             [] outcome = "ctorThrows" ->
                  /\ recording' = FALSE
                  /\ chatBox' = micCatch(chatBox, "ReferenceError")
                  /\ UNCHANGED <<recorders, mediaRecorder, audioChunks>>
             [] outcome = "startThrows" ->
                  /\ recording' = FALSE
                  /\ recorders' = Append(recorders, Recorder(s, "inactive"))
                  /\ mediaRecorder' = r
                  /\ audioChunks' = <<>>
                  /\ chatBox' = micCatch(chatBox, "NotSupportedError")
    /\ UNCHANGED <<net, clicksLeft>>
    /\ UNCHANGED chatVars
    /\ UNCHANGED ttsVars

\* getUserMedia rejects and the listener runs its catch block,
\* script.js:150-163.
MicReject(name) ==
    /\ gumPending > 0
    /\ gumPending' = gumPending - 1
    /\ recording' = FALSE
    /\ chatBox' = micCatch(chatBox, name)
    /\ UNCHANGED <<mediaRecorder, audioChunks, recorders, streams, net, clicksLeft>>
    /\ UNCHANGED chatVars
    /\ UNCHANGED ttsVars

\* A slip: a clip without data is not submitted.
RecorderStopped_SkipEmpty(r, size) ==
    /\ r \in 1..Len(recorders)
    /\ recorders[r].task
    /\ recorders' = [recorders EXCEPT ![r].task = FALSE]
    /\ audioChunks' = Append(audioChunks, Chunk(r, size))
    /\ streams' = [streams EXCEPT ![recorders[r].stream] = "stopped"]
    /\ net' = IF size = 0 THEN net ELSE Append(net, SttRequest(audioChunks'))
    /\ UNCHANGED <<recording, mediaRecorder, gumPending, chatBox, clicksLeft>>
    /\ UNCHANGED chatVars
    /\ UNCHANGED ttsVars

\* The task stop() queued on recorder r: ondataavailable, script.js:118-120,
\* then onstop up to its await, script.js:122-134.  The handlers are those
\* set on r: onstop stops the tracks of r's own stream, and both use the
\* shared audioChunks.  `size` is the size of the blob delivered.
RecorderStopped(r, size) ==
    /\ r \in 1..Len(recorders)
    /\ recorders[r].task
    /\ recorders' = [recorders EXCEPT ![r].task = FALSE]
    /\ audioChunks' = Append(audioChunks, Chunk(r, size))
    /\ streams' = [streams EXCEPT ![recorders[r].stream] = "stopped"]
    /\ net' = Append(net, SttRequest(audioChunks'))
    /\ UNCHANGED <<recording, mediaRecorder, gumPending, chatBox, clicksLeft>>
    /\ UNCHANGED chatVars
    /\ UNCHANGED ttsVars

\* onstop after its fetch settled, script.js:135-145.
SttResponse(i, outcome) ==
    /\ i \in 1..Len(net)
    /\ net[i].ep = "/speech_to_text"
    /\ IF ~outcome.json
       THEN /\ chatBox' = displayMessage(chatBox, "System", SttFailedText, FALSE)
            /\ net' = RemoveAt(net, i)
            /\ userInput' = userInput
       ELSE IF outcome.text # <<>>
       THEN sendMessage(outcome.text, RemoveAt(net, i))
       ELSE IF outcome.error # <<>>
       THEN /\ chatBox' = displayMessage(chatBox, "System",
                                         SttErrorPrefix \o outcome.error, FALSE)
            /\ net' = RemoveAt(net, i)
            /\ userInput' = userInput
       ELSE /\ chatBox' = chatBox
            /\ net' = RemoveAt(net, i)
            /\ userInput' = userInput
    /\ UNCHANGED <<loaded, initialHistory, currentChatMode, clicksLeft>>
    /\ UNCHANGED micVars
    /\ UNCHANGED ttsVars

-----------------------------------------------------------------------------

(* Speech output.  speakText, script.js:169-193, and the audio element it   *)
(* plays through.                                                           *)

\* The body of a /text_to_speech request, script.js:171-175.
TtsRequest(text) ==
    [ep |-> "/text_to_speech", from |-> "speakText", message |-> text,
     chat_type |-> "", audio |-> <<>>]

\* speakText up to its await, script.js:169-175: the requests after it.
speakText(text, requests) == Append(requests, TtsRequest(text))

\* A click on the listen icon of the k-th line of the view: its onclick,
\* script.js:24, calls speakText with the text displayMessage was given.
SpeakClick(k) ==
    /\ k \in 1..Len(chatBox)
    /\ chatBox[k].icon # <<>>
    /\ clicksLeft > 0
    /\ clicksLeft' = clicksLeft - 1
    /\ net' = speakText(chatBox[k].icon[1], net)
    /\ UNCHANGED <<chatBox, objectUrls, ttsAudio>>
    /\ UNCHANGED chatVars
    /\ UNCHANGED micVars

\* A slip: the ended handler is installed by the first call only.
speakTextPlay_HandlerOnce(audio, url) ==
    [src |-> url, state |-> "playing",
     onended |-> IF audio.onended = 0 THEN url ELSE audio.onended]

\* script.js:179-184: the audio element after src is set to a new object
\* URL, play() is called and the ended handler is replaced by one that
\* revokes that URL.  (Setting src starts a new load, which drops an ended
\* event of the previous source that is queued but not yet dispatched.)
speakTextPlay(audio, url) ==
    [src |-> url, state |-> "playing", onended |-> url]

\* The text `${errorData.error}` yields.
TtsErrorText(error) == IF error.present THEN error.text ELSE <<"undefined">>

\* speakText after its fetch settled, script.js:177-192, for the i-th
\* request in flight.
TtsResponse(i, outcome) ==
    /\ i \in 1..Len(net)
    /\ net[i].ep = "/text_to_speech"
    /\ net' = RemoveAt(net, i)
    /\ IF ~outcome.transport
       THEN /\ chatBox' = displayMessage(chatBox, "System", TtsFailedText, FALSE)
            /\ UNCHANGED <<objectUrls, ttsAudio>>
       ELSE IF outcome.ok
       THEN /\ objectUrls' = Append(objectUrls, 0)
            /\ ttsAudio' = speakTextPlay(ttsAudio, Len(objectUrls) + 1)
            /\ chatBox' = chatBox
       ELSE IF outcome.json
       THEN /\ chatBox' = displayMessage(chatBox, "System",
                              TtsErrorPrefix \o TtsErrorText(outcome.error), FALSE)
            /\ UNCHANGED <<objectUrls, ttsAudio>>
       ELSE /\ chatBox' = displayMessage(chatBox, "System", TtsFailedText, FALSE)
            /\ UNCHANGED <<objectUrls, ttsAudio>>
    /\ UNCHANGED <<clicksLeft>>
    /\ UNCHANGED chatVars
    /\ UNCHANGED micVars

\* Playback of the current source reaches its end: the element queues the
\* task that will fire `ended`.
PlaybackEnds ==
    /\ ttsAudio.state = "playing"
    /\ ttsAudio' = [ttsAudio EXCEPT !.state = "ending"]
    /\ UNCHANGED <<chatBox, net, clicksLeft, objectUrls>>
    /\ UNCHANGED chatVars
    /\ UNCHANGED micVars

\* The ended event is dispatched: the handler installed at the time runs,
\* script.js:182-184, and revokes the URL it closed over.
Ended ==
    /\ ttsAudio.state = "ending"
    /\ ttsAudio' = [ttsAudio EXCEPT !.state = "ended"]
    /\ objectUrls' = IF ttsAudio.onended = 0
                     THEN objectUrls
                     ELSE [objectUrls EXCEPT ![ttsAudio.onended] = @ + 1]
    /\ UNCHANGED <<chatBox, net, clicksLeft>>
    /\ UNCHANGED chatVars
    /\ UNCHANGED micVars

-----------------------------------------------------------------------------

Next ==
    \/ Onload
    \/ \E value \in Inputs : Type(value)
    \/ PressEnter
    \/ \E i \in 1..Len(net), outcome \in ChatOutcomes : ChatResponse(i, outcome)
    \/ \E mode \in Modes : ModeClick(mode)
    \/ VoiceClick
    \/ \E outcome \in StartOutcomes : MicGrant(outcome)
    \/ \E name \in MicErrorNames : MicReject(name)
    \/ \E r \in 1..Len(recorders), size \in ChunkSizes : RecorderStopped(r, size)
    \/ \E i \in 1..Len(net), outcome \in SttOutcomes : SttResponse(i, outcome)

\* Every action of text chat, mode switching and voice input together, on a
\* page that was served without a history.  (The specifications of the parts
\* start from Init, with and without a history; speech output has its own.)
InitFresh == InitWith({Undefined}, MaxClicks)

Spec == InitFresh /\ [][Next]_vars

\* The text conversation alone: no voice input.
NextChat ==
    \/ Onload
    \/ \E value \in Inputs : Type(value)
    \/ PressEnter
    \/ \E i \in 1..Len(net), outcome \in ChatOutcomes : ChatResponse(i, outcome)
    \/ \E mode \in Modes : ModeClick(mode)

SpecChat == Init /\ [][NextChat]_vars

\* Voice input alone: the user neither types nor switches mode.
NextMic ==
    \/ Onload
    \/ \E i \in 1..Len(net), outcome \in ChatOutcomes : ChatResponse(i, outcome)
    \/ VoiceClick
    \/ \E outcome \in StartOutcomes : MicGrant(outcome)
    \/ \E name \in MicErrorNames : MicReject(name)
    \/ \E r \in 1..Len(recorders), size \in ChunkSizes : RecorderStopped(r, size)
    \/ \E i \in 1..Len(net), outcome \in SttOutcomes : SttResponse(i, outcome)

InitMic == InitWith(Histories, MaxVoiceClicks)

SpecMic == InitMic /\ [][NextMic]_vars

\* Page load over every small history, with mode switches before and after.
InitBoot == InitWith(BootHistories, MaxClicks)

NextBoot ==
    \/ Onload
    \/ \E mode \in Modes : ModeClick(mode)
    \/ \E i \in 1..Len(net), outcome \in ChatOutcomes : ChatResponse(i, outcome)

SpecBoot == InitBoot /\ [][NextBoot]_vars

\* Ordering: messages sent one after the other, answered in any order.
NextOrder ==
    \/ Onload
    \/ \E value \in OrderInputs : Type(value)
    \/ PressEnter
    \/ \E i \in 1..Len(net) : ChatResponse(i, Answered(net[i]))

SpecOrder == Init /\ [][NextOrder]_vars

\* Rendering: load with a history of one entry, over every small text.
InitRender == InitWith(RenderHistories, MaxClicks)

NextRender == Onload

SpecRender == InitRender /\ [][NextRender]_vars

\* Speech output: the lines load and the replies render, clicks on their
\* listen icons, and playback.
NextTts ==
    \/ Onload
    \/ \E i \in 1..Len(net), outcome \in ChatOutcomes : ChatResponse(i, outcome)
    \/ \E k \in 1..Len(chatBox) : SpeakClick(k)
    \/ \E i \in 1..Len(net), outcome \in TtsOutcomes : TtsResponse(i, outcome)
    \/ PlaybackEnds
    \/ Ended

SpecTts == Init /\ [][NextTts]_vars

-----------------------------------------------------------------------------
(* Properties. *)

SystemLine(text) == [sender |-> "System", html |-> text, icon |-> <<>>]

LiveStreams == {s \in 1..Len(streams) : streams[s] = "live"}

\* The capture sessions that are open: a recorder recording a live stream.
OpenSessions ==
    {r \in 1..Len(recorders) :
        recorders[r].state = "recording" /\ streams[recorders[r].stream] = "live"}

\* Nothing is left to run: no getUserMedia promise, no recorder task and no
\* fetch is pending.
Quiescent ==
    /\ gumPending = 0
    /\ \A r \in 1..Len(recorders) : ~recorders[r].task
    /\ net = <<>>

\* C1: in every reachable state at most one capture session (a granted
\* microphone stream with its recorder recording it) is open.
C1_MicrophoneExclusive == Cardinality(OpenSessions) <= 1

\* C4: whenever the recording flag is clear and every pending callback has
\* run, no granted microphone stream is still open.
C4_MicrophoneReleased == (~recording /\ Quiescent) => LiveStreams = {}

\* C10: the step in which getUserMedia rejects leaves the recording flag
\* clear, starts no recorder, issues no request, and renders exactly one
\* System line, whose text is chosen by the failure category.
C10_RefusedStart ==
    [][\A name \in MicErrorNames :
          MicReject(name) =>
            /\ recording' = FALSE
            /\ recorders' = recorders
            /\ mediaRecorder' = mediaRecorder
            /\ net' = net
            /\ chatBox' = Append(chatBox, SystemLine(
                  CASE name \in {"NotAllowedError", "PermissionDeniedError"} ->
                         MicDeniedText
                    [] name \in {"NotFoundError", "DevicesNotFoundError"} ->
                         MicNotFoundText
                    [] OTHER -> MicOtherText))]_vars

\* A refused start, first thing after load: one System line, nothing recording.
C10_Witness ==
    /\ ~recording
    /\ clicksLeft = MaxVoiceClicks - 1
    /\ gumPending = 0
    /\ streams = <<>>
    /\ recorders = <<>>
    /\ Len(chatBox) >= 1
    /\ chatBox[Len(chatBox)] = SystemLine(MicNotFoundText)

\* What a rendered line must be: the label, the text with its angle
\* brackets escaped, and a listen icon holding the text when speakable.
Rendered(sender, text, speakable) ==
    [sender |-> sender, html |-> Sanitize(text),
     icon |-> IF speakable THEN <<text>> ELSE <<>>]

GreetingRequest(mode) ==
    [ep |-> "/chat", from |-> "sendInitialGreeting", message |-> GreetingText,
     chat_type |-> mode, audio |-> <<>>]

MessageRequest(text, mode) ==
    [ep |-> "/chat", from |-> "sendMessage", message |-> text,
     chat_type |-> mode, audio |-> <<>>]

\* C2: a click on the selector of another mode leaves a view of exactly one
\* line, the System announcement of that mode, makes it the current mode and
\* issues exactly one more /chat request, the greeting; a click on the
\* selector of the current mode changes neither view, mode, requests nor
\* input.
C2_ModeSwitch ==
    [][\A mode \in Modes :
          ModeClick(mode) =>
            IF currentChatMode # mode
            THEN /\ chatBox' = << SystemLine(
                        IF mode = "mental_health"
                        THEN SwitchedMentalHealthText
                        ELSE SwitchedStudyBuddyText) >>
                 /\ currentChatMode' = mode
                 /\ net' = Append(net, GreetingRequest(mode))
            ELSE UNCHANGED <<chatBox, currentChatMode, net, userInput>>]_vars

\* After load rendered a history, a switch to study_buddy: the history lines
\* are gone, the announcement is the only line, one greeting is in flight.
C2_Witness ==
    /\ loaded
    /\ Len(initialHistory.entries) > 0
    /\ clicksLeft = MaxClicks - 1
    /\ currentChatMode = "study_buddy"
    /\ chatBox = <<SystemLine(SwitchedStudyBuddyText)>>
    /\ net = <<GreetingRequest("study_buddy")>>

\* C3: a /chat response with a non-2xx status renders exactly one line, the
\* fixed failure message of the function that issued the request, whatever
\* the body of the response.
C3_Http500 ==
    [][\A i \in 1..Len(net), outcome \in ChatOutcomes :
          (ChatResponse(i, outcome) /\ outcome.transport /\ ~outcome.ok) =>
            chatBox' = Append(chatBox,
                Rendered("MindMate",
                         IF net[i].from = "sendMessage"
                         THEN TroubleText ELSE GreetingFailedText,
                         FALSE))]_vars

\* C5: Enter on an input that trims to nothing changes neither the view, the
\* requests in flight, the mode nor the input field.
C5_EmptySendNoop ==
    [][(PressEnter /\ Trim(userInput) = <<>>) =>
          UNCHANGED <<chatBox, net, currentChatMode, userInput>>]_vars

\* A whitespace-only input after load, where Enter leads back to the same
\* state: nothing rendered, nothing in flight but the greeting.
C5_Witness ==
    /\ userInput = <<" ">>
    /\ clicksLeft = MaxClicks
    /\ loaded
    /\ ~initialHistory.defined
    /\ chatBox = <<>>
    /\ net = <<GreetingRequest("mental_health")>>

\* C6: Enter on an input that trims to a non-empty t renders the You line of
\* t, clears the input and puts exactly one request {t, current mode} in
\* flight, all in the same step; the step in which that request settles
\* issues no request (no retry) and renders exactly one MindMate line: the
\* reply, speakable, for a 2xx response with a reply, else the fixed message,
\* not speakable.
C6_SendMessage ==
    /\ [][(PressEnter /\ Trim(userInput) # <<>>) =>
            /\ chatBox' = Append(chatBox, Rendered("You", Trim(userInput), FALSE))
            /\ userInput' = <<>>
            /\ net' = Append(net, MessageRequest(Trim(userInput), currentChatMode))]_vars
    /\ [][\A i \in 1..Len(net), outcome \in ChatOutcomes :
            (net[i].from = "sendMessage" /\ ChatResponse(i, outcome)) =>
              /\ net' = RemoveAt(net, i)
              /\ chatBox' = Append(chatBox,
                    IF outcome.transport /\ outcome.ok /\ outcome.body.json
                    THEN Rendered("MindMate", outcome.body.response, TRUE)
                    ELSE Rendered("MindMate", TroubleText, FALSE))]_vars

\* A message sent and answered with a non-2xx status while the greeting is
\* still in flight: the You line, then the fixed message.
C6_Witness ==
    /\ loaded
    /\ clicksLeft = MaxClicks - 1
    /\ ~initialHistory.defined
    /\ userInput = <<>>
    /\ net = <<GreetingRequest("mental_health")>>
    /\ chatBox = << Rendered("You", <<"hi">>, FALSE),
                    Rendered("MindMate", TroubleText, FALSE) >>

\* C7: load with a non-empty initialHistory issues no request and appends to
\* the view exactly one line per entry, in the order of the history: You and
\* not speakable for role user, MindMate and speakable for role model.
C7_HistoryReplay ==
    [][(Onload /\ initialHistory.defined /\ Len(initialHistory.entries) > 0) =>
          /\ net' = net
          /\ Len(chatBox') = Len(chatBox) + Len(initialHistory.entries)
          /\ SubSeq(chatBox', 1, Len(chatBox)) = chatBox
          /\ \A k \in 1..Len(initialHistory.entries) :
                LET entry == initialHistory.entries[k] IN
                chatBox'[Len(chatBox) + k] =
                    IF entry.role = "user"
                    THEN Rendered("You", entry.text, FALSE)
                    ELSE Rendered("MindMate", entry.text, TRUE)]_vars

\* The history of the specification's example shape, loaded: a user entry,
\* then a model entry whose text holds angle brackets.
C7_Witness ==
    /\ loaded
    /\ initialHistory.entries =
          << HistoryEntry("user", <<"hi">>),
             HistoryEntry("model", <<"<", "b", ">">>) >>
    /\ net = <<>>
    /\ chatBox = << [sender |-> "You", html |-> <<"hi">>, icon |-> <<>>],
                    [sender |-> "MindMate",
                     html |-> <<"&", "l", "t", ";", "b", "&", "g", "t", ";">>,
                     icon |-> << <<"<", "b", ">">> >>] >>

\* C8: load with initialHistory absent or empty renders nothing and issues
\* exactly one request, the greeting with the current mode; the step in
\* which a greeting settles renders exactly one MindMate line: the reply,
\* speakable, when a body with a reply arrived, and the fixed apology, not
\* speakable, on transport failure.
C8_Greeting ==
    /\ [][(Onload /\ ~(initialHistory.defined /\ Len(initialHistory.entries) > 0)) =>
            /\ chatBox' = chatBox
            /\ net' = Append(net, GreetingRequest(currentChatMode))]_vars
    /\ [][\A i \in 1..Len(net), outcome \in ChatOutcomes :
            (net[i].from = "sendInitialGreeting" /\ ChatResponse(i, outcome)) =>
              /\ net' = RemoveAt(net, i)
              /\ Len(chatBox') = Len(chatBox) + 1
              /\ SubSeq(chatBox', 1, Len(chatBox)) = chatBox
              /\ chatBox'[Len(chatBox')].sender = "MindMate"
              /\ (outcome.transport /\ outcome.body.json) =>
                    chatBox'[Len(chatBox')] =
                        Rendered("MindMate", outcome.body.response, TRUE)
              /\ ~outcome.transport =>
                    chatBox'[Len(chatBox')] =
                        Rendered("MindMate", GreetingFailedText, FALSE)]_vars

\* Load with an empty history, and the greeting lost in transport: the
\* apology is the only line.
C8_Witness ==
    /\ loaded
    /\ initialHistory = History(<<>>)
    /\ clicksLeft = MaxClicks
    /\ net = <<>>
    /\ chatBox = <<Rendered("MindMate", GreetingFailedText, FALSE)>>

\* C9: the mode is always mental_health or study_buddy; only a click on a
\* mode selector changes it; and a /chat request that a step puts in flight
\* carries the mode of the moment it is issued.
C9_Mode ==
    /\ [](currentChatMode \in Modes)
    /\ [][currentChatMode' # currentChatMode =>
            \E mode \in Modes : ModeClick(mode)]_vars
    /\ [][(net' # net /\ Len(net') >= Len(net)) =>
            LET issued == net'[Len(net')] IN
            issued.ep = "/chat" => issued.chat_type = currentChatMode']_vars

\* A message sent in study_buddy mode, in flight with that tag.
C9_Witness ==
    /\ currentChatMode = "study_buddy"
    /\ Len(net) >= 1
    /\ net[Len(net)] = MessageRequest(<<"hi">>, "study_buddy")

-----------------------------------------------------------------------------
(* Voice input: what a stop submits. *)

TranscriptionRequest(clip) ==
    [ep |-> "/speech_to_text", from |-> "onstop", message |-> <<>>,
     chat_type |-> "", audio |-> clip]

\* The /speech_to_text requests among the requests in flight.
Transcriptions(requests) ==
    SelectSeq(requests, LAMBDA request : request.ep = "/speech_to_text")

\* C11: a click that finds the flag set and the current recorder recording
\* stops that recorder, which queues its stop task; the step in which a
\* recorder's stop task runs puts exactly one /speech_to_text request in
\* flight, whose clip is the chunk buffer with the delivered blob appended,
\* also when that blob is empty, and the task does not run again; and no
\* other step puts a /speech_to_text request in flight.
C11_StopSubmits ==
    /\ [][(recording /\ mediaRecorder # 0
              /\ recorders[mediaRecorder].state = "recording" /\ VoiceClick) =>
            /\ recorders'[mediaRecorder].state = "inactive"
            /\ recorders'[mediaRecorder].task]_vars
    /\ [][\A r \in 1..Len(recorders), size \in ChunkSizes :
            RecorderStopped(r, size) =>
              /\ ~recorders'[r].task
              /\ audioChunks' =
                    Append(audioChunks, [recorder |-> r, size |-> size])
              /\ net' = Append(net, TranscriptionRequest(audioChunks'))]_vars
    /\ [][Len(Transcriptions(net')) > Len(Transcriptions(net)) =>
            \E r \in 1..Len(recorders), size \in ChunkSizes :
                RecorderStopped(r, size)]_vars

\* A recording stopped right after its start: the recorder delivered an
\* empty blob, and the request with the empty clip is in flight.
C11_Witness ==
    /\ Len(recorders) = 1
    /\ recorders[1].state = "inactive"
    /\ ~recorders[1].task
    /\ streams = <<"stopped">>
    /\ Len(net) >= 1
    /\ net[Len(net)] = TranscriptionRequest(<<[recorder |-> 1, size |-> 0]>>)

-----------------------------------------------------------------------------
(* Speech output: the lifetime of object URLs. *)

\* The object URLs that a step revokes.
Revoked ==
    {u \in 1..Len(objectUrls) : objectUrls'[u] > objectUrls[u]}

\* C12: no object URL is ever revoked more than once; a step revokes a URL
\* only by dispatching the ended event of the playback of that same URL (it
\* is the element's source and its playback has reached the end); and the
\* URL that is the element's source and still playing is not revoked.
C12_ObjectUrlLifetime ==
    /\ [](\A u \in 1..Len(objectUrls) : objectUrls[u] <= 1)
    /\ [][Revoked # {} =>
            /\ Ended
            /\ ttsAudio.state = "ending"
            /\ Revoked = {ttsAudio.src}]_vars
    /\ []((ttsAudio.src # 0 /\ ttsAudio.state = "playing") =>
            objectUrls[ttsAudio.src] = 0)

\* Two overlapping speakText calls: the second response arrived while the
\* first URL was the source, and the second playback has ended.  The second
\* URL is revoked, once; the first, interrupted, is not.
C12_Witness ==
    /\ objectUrls = <<0, 1>>
    /\ ttsAudio = [src |-> 2, state |-> "ended", onended |-> 2]

-----------------------------------------------------------------------------
(* Rendering: escaping. *)

\* The angle brackets among the first n tokens of a text.
Brackets(text, n) == Cardinality({j \in 1..n : text[j] \in {"<", ">"}})

\* html is text with every "<" spelled &lt; and every ">" spelled &gt;, and
\* every other token in its place: token i of text starts in html after the
\* i - 1 tokens before it, each bracket among them taking three more places.
EscapedAs(text, html) ==
    /\ Len(html) = Len(text) + 3 * Brackets(text, Len(text))
    /\ \A i \in 1..Len(text) :
          LET at == i + 3 * Brackets(text, i - 1) IN
          CASE text[i] = "<" ->
                 SubSeq(html, at, at + 3) = <<"&", "l", "t", ";">>
            [] text[i] = ">" ->
                 SubSeq(html, at, at + 3) = <<"&", "g", "t", ";">>
            [] OTHER -> html[at] = text[i]

\* C13: the text part of every line rendered for a text t holds no "<" and
\* no ">", and is t with each "<" replaced by &lt;, each ">" by &gt;, and
\* all other characters unchanged and in order.
C13_Escaped ==
    \A k \in 1..Len(chatBox) :
        LET text == initialHistory.entries[k].text
            html == chatBox[k].html
        IN  /\ \A j \in 1..Len(html) : html[j] \notin {"<", ">"}
            /\ EscapedAs(text, html)

\* A text with a tag in it, rendered.
C13_Witness ==
    /\ loaded
    /\ initialHistory.entries[1].text = <<"<", "a", ">">>
    /\ Len(chatBox) = 1
    /\ chatBox[1].html = <<"&", "l", "t", ";", "a", "&", "g", "t", ";">>

-----------------------------------------------------------------------------
(* Mode switching: replies that arrive late. *)

\* C14: after a switch the view holds only the new conversation.  A request
\* carries the mode of the moment it was issued, and only a switch changes
\* the mode, so a request in flight that is tagged with another mode than
\* the current one was issued before the last switch: the step in which it
\* settles appends nothing to the view.
C14_OnlyNewConversation ==
    [][\A i \in 1..Len(net), outcome \in ChatOutcomes :
          (net[i].chat_type # currentChatMode /\ ChatResponse(i, outcome)) =>
            chatBox' = chatBox]_vars

-----------------------------------------------------------------------------
(* Voice input: the outcome of a transcription. *)

\* C15: the step in which a /speech_to_text request completes appends
\* exactly one line to the view: for a body with a transcript the You line
\* of the transcript, the input field being left empty and exactly one /chat
\* request with the transcript and the current mode being put in flight;
\* for a body with an error field the System line of that error; when the
\* fetch or the parse failed the fixed System line.  No request completes
\* with nothing rendered.
C15_OneOutcome ==
    [][\A i \in 1..Len(net), outcome \in SttOutcomes :
          (net[i].ep = "/speech_to_text" /\ SttResponse(i, outcome)) =>
            /\ Len(chatBox') = Len(chatBox) + 1
            /\ SubSeq(chatBox', 1, Len(chatBox)) = chatBox
            /\ LET line == chatBox'[Len(chatBox')] IN
               IF ~outcome.json
               THEN /\ line = SystemLine(SttFailedText)
                    /\ net' = RemoveAt(net, i)
               ELSE IF outcome.text # <<>>
               THEN /\ line = Rendered("You", outcome.text, FALSE)
                    /\ userInput' = <<>>
                    /\ net' = Append(RemoveAt(net, i),
                                     MessageRequest(outcome.text, currentChatMode))
               ELSE /\ outcome.error # <<>>
                    /\ line = SystemLine(SttErrorPrefix \o outcome.error)
                    /\ net' = RemoveAt(net, i)]_vars

-----------------------------------------------------------------------------
(* Text chat: the order of lines. *)

\* C16: the reply to any request in flight, whatever its place among them,
\* is appended to the end of the view in the step in which it arrives; the
\* You line of a message is appended to the end of the view in the step
\* that submits it, with its request last in flight; and no step moves,
\* removes or inserts before a line already in the view.  So replies stand
\* in arrival order and You lines in submission order.  (That a later
\* message can be answered first is the state C16_Witness.)
C16_ArrivalOrder ==
    /\ [][\A i \in 1..Len(net) :
            (net[i].from = "sendMessage" /\ ChatResponse(i, Answered(net[i]))) =>
              chatBox' = Append(chatBox,
                  Rendered("MindMate", <<"re:">> \o net[i].message, TRUE))]_vars
    /\ [][(Trim(userInput) # <<>> /\ PressEnter) =>
            /\ chatBox' = Append(chatBox, Rendered("You", Trim(userInput), FALSE))
            /\ Len(net') = Len(net) + 1
            /\ net'[Len(net')].message = Trim(userInput)]_vars
    /\ [][/\ Len(chatBox') >= Len(chatBox)
          /\ SubSeq(chatBox', 1, Len(chatBox)) = chatBox]_vars

\* Message a, then message b while a is in flight; b is answered first.
\* The You lines stand in submission order, the replies in arrival order.
C16_Witness ==
    /\ ~initialHistory.defined
    /\ net = <<GreetingRequest("mental_health")>>
    /\ chatBox = << Rendered("You", <<"a">>, FALSE),
                    Rendered("You", <<"b">>, FALSE),
                    Rendered("MindMate", <<"re:", "b">>, TRUE),
                    Rendered("MindMate", <<"re:", "a">>, TRUE) >>

-----------------------------------------------------------------------------
(* Voice input: whose chunks a clip holds. *)

\* C17: the clip submitted when the stop task of a recorder runs holds
\* exactly what that recorder captured (started without a timeslice, a
\* recorder delivers its capture as one blob, when it stops): no chunk of
\* another recorder, and its own chunk not missing.
C17_OwnChunks ==
    [][\A r \in 1..Len(recorders), size \in ChunkSizes :
          RecorderStopped(r, size) =>
            net'[Len(net')].audio = <<[recorder |-> r, size |-> size]>>]_vars

-----------------------------------------------------------------------------
(* Voice input: the recording flag. *)

\* The recorder that mediaRecorder refers to is recording.
CurrentRecording ==
    mediaRecorder # 0 /\ recorders[mediaRecorder].state = "recording"

\* C18: in every reachable state the button carries the recording flag if
\* and only if the current recorder is recording; a click that finds the
\* flag set stops the current recorder, which was recording; and no recorder
\* but the current one, with the flag set, is ever recording (so that a
\* click can stop it).
C18_FlagTracksRecorder ==
    /\ [](recording <=> CurrentRecording)
    /\ [][(recording /\ VoiceClick) =>
            /\ CurrentRecording
            /\ recorders'[mediaRecorder].state = "inactive"]_vars
    /\ [](\A r \in 1..Len(recorders) :
            recorders[r].state = "recording" => (recording /\ r = mediaRecorder))

-----------------------------------------------------------------------------
(* Speech output: on demand only. *)

\* The /text_to_speech requests among the requests in flight.
SpeechRequests(requests) ==
    SelectSeq(requests, LAMBDA request : request.ep = "/text_to_speech")

SpeechRequest(text) ==
    [ep |-> "/text_to_speech", from |-> "speakText", message |-> text,
     chat_type |-> "", audio |-> <<>>]

\* C19: a line of the view that has a listen icon is a MindMate line, is
\* none of the fixed failure messages, and shows the escaped form of the
\* text its icon holds; the line a settling /chat request appends has an
\* icon only when it renders the reply of a successful (2xx) response, and
\* the icon then holds that reply as received; the lines load renders have
\* an icon, holding the entry's text, exactly for the entries of role
\* model; a click on the icon of a line puts in flight exactly one
\* /text_to_speech request, with the text the icon holds, and changes
\* nothing in the view; and no other step puts a /text_to_speech request in
\* flight.
C19_SpeechOnDemand ==
    /\ [](\A k \in 1..Len(chatBox) :
            chatBox[k].icon # <<>> =>
              /\ chatBox[k].sender = "MindMate"
              /\ Len(chatBox[k].icon) = 1
              /\ EscapedAs(chatBox[k].icon[1], chatBox[k].html)
              /\ chatBox[k].html \notin {GreetingFailedText, TroubleText})
    /\ [][\A i \in 1..Len(net), outcome \in ChatOutcomes :
            ChatResponse(i, outcome) =>
              LET line == chatBox'[Len(chatBox')] IN
              line.icon # <<>> =>
                /\ outcome.transport
                /\ outcome.ok
                /\ outcome.body.json
                /\ line.icon = <<outcome.body.response>>]_vars
    /\ [][Onload =>
            \A k \in 1..(Len(chatBox') - Len(chatBox)) :
                chatBox'[Len(chatBox) + k].icon =
                    IF initialHistory.entries[k].role = "model"
                    THEN <<initialHistory.entries[k].text>>
                    ELSE <<>>]_vars
    /\ [][\A k \in 1..Len(chatBox) :
            SpeakClick(k) =>
              /\ chatBox[k].icon # <<>>
              /\ net' = Append(net, SpeechRequest(chatBox[k].icon[1]))
              /\ chatBox' = chatBox]_vars
    /\ [][Len(SpeechRequests(net')) > Len(SpeechRequests(net)) =>
            \E k \in 1..Len(chatBox) : SpeakClick(k)]_vars
====
